---- MODULE Spec2Model ----
(***************************************************************************)
(* fugit: Duration, Instant and Rate over a rational time base.            *)
(*                                                                         *)
(* The backing integers u32 and u64 are modelled with their widths scaled  *)
(* down (U32_BITS, U64_BITS = 2 * U32_BITS), keeping every relation the    *)
(* code relies on: a scale component is a u32, Helpers computes in u64,    *)
(* the product of two u32 always fits a u64, `as u32` truncates a u64      *)
(* modulo 2^U32_BITS, and `as u64` is lossless.                            *)
(***************************************************************************)
EXTENDS Integers, Sequences, FiniteSets, TLC

VARIABLES T, F, O, a, b, c, op, out, out2

vars == <<T, F, O, a, b, c, op, out, out2>>

(***************************************************************************)
(* Bounds of the model                                                     *)
(***************************************************************************)
\* largest numerator of a scale drawn in Init
MaxNum == 2
\* largest denominator of a scale drawn in Init
MaxDenom == 4

(***************************************************************************)
(* Integer types                                                           *)
(***************************************************************************)
\* width of the narrow backing type (u32), scaled down
U32_BITS == 3
\* width of the wide backing type (u64) and of the Helpers constants
U64_BITS == 2 * U32_BITS

Types == {"u32", "u64"}

BITS(t) == IF t = "u32" THEN U32_BITS ELSE U64_BITS

\* <$i>::MAX
MAX(t) == 2 ^ BITS(t) - 1

\* the values of type t
Values(t) == 0 .. MAX(t)

\* `x as $i` for an x of type u64 (truncating when $i is u32)
as(x, t) == x % (2 ^ BITS(t))

\* Option<$i>, extended with the abort (panic) outcome
Some(v) == [tag |-> "Some", val |-> v]
None == [tag |-> "None", val |-> 0]
Panic == [tag |-> "Panic", val |-> 0]

\* $i::checked_add
checked_add(t, x, y) == IF x + y <= MAX(t) THEN Some(x + y) ELSE None

\* $i::checked_sub
checked_sub(t, x, y) == IF x >= y THEN Some(x - y) ELSE None

\* $i::checked_mul
checked_mul(t, x, y) == IF x * y <= MAX(t) THEN Some(x * y) ELSE None

\* $i::wrapping_add
wrapping_add(t, x, y) == (x + y) % (2 ^ BITS(t))

\* $i::wrapping_sub
wrapping_sub(t, x, y) == IF x >= y THEN x - y ELSE x + 2 ^ BITS(t) - y

(***************************************************************************)
(* Fraction and Helpers (helpers.rs)                                       *)
(***************************************************************************)
Fraction(n, d) == [num |-> n, denom |-> d]

\* the scales drawn in Init: valid (non-zero) components
Scales == {Fraction(n, d) : n \in 1 .. MaxNum, d \in 1 .. MaxDenom}

\* The named scales, their thousand scaled down with the integer widths:
\* 1_000 is modelled by 2, 1_000_000 by 4 and 1_000_000_000 by 7, all
\* distinct and within the scaled u32.
Fraction_NANO == Fraction(1, 7)
Fraction_MICRO == Fraction(1, 4)
Fraction_MILLI == Fraction(1, 2)
Fraction_ONE == Fraction(1, 1)
Fraction_KILO == Fraction(2, 1)
Fraction_MEGA == Fraction(4, 1)

RECURSIVE binary_u64(_, _)
\* gcd::binary_u64 (greatest common divisor of two u64)
binary_u64(u, v) == IF v = 0 THEN u ELSE binary_u64(v, u % v)

\* Helpers::DIVISOR taking the divisor of the rate products (mutant)
DIVISOR_of_rates(L, R) == binary_u64(L.num * R.num, R.denom * L.denom)

DIVISOR(L, R) == binary_u64(L.denom * R.num, R.denom * L.num)

DIVISOR_2(L, R) == binary_u64(L.num * R.num, R.denom * L.denom)

RD_TIMES_LN(L, R) == (R.denom * L.num) \div DIVISOR(L, R)

LD_TIMES_RN(L, R) == (L.denom * R.num) \div DIVISOR(L, R)

LN_TIMES_RN(L, R) == (L.num * R.num) \div DIVISOR_2(L, R)

RD_TIMES_LD(L, R) == (R.denom * L.denom) \div DIVISOR_2(L, R)

RATE_TO_DURATION_NUMERATOR(L, R) == RD_TIMES_LD(L, R) \div LN_TIMES_RN(L, R)

\* Helpers::SAME_BASE comparing the scales component by component (mutant)
SAME_BASE_syntactic(L, R) == L.num = R.num /\ L.denom = R.denom

SAME_BASE(L, R) == LD_TIMES_RN(L, R) = RD_TIMES_LN(L, R)

\* `x as u32 * y as u32`: the product without the widening cast (mutant)
widening_mul_narrow(x, y) == checked_mul("u32", x, y)

\* `x as u64 * y as u64` in a constant expression: None when it overflows
widening_mul(x, y) == checked_mul("u64", as(x, "u64"), as(y, "u64"))

\* Evaluation of every constant of Helpers::<L, R>: Panic when a product
\* overflows or a division has a zero divisor (constant evaluation aborts)
Helpers_eval(L, R) ==
    IF \/ widening_mul(L.denom, R.num).tag = "None"
       \/ widening_mul(R.denom, L.num).tag = "None"
       \/ widening_mul(L.num, R.num).tag = "None"
       \/ widening_mul(R.denom, L.denom).tag = "None"
    THEN Panic
    ELSE IF DIVISOR(L, R) = 0 \/ DIVISOR_2(L, R) = 0
         THEN Panic
         ELSE IF LN_TIMES_RN(L, R) = 0
              THEN Panic
              ELSE Some([DIVISOR |-> DIVISOR(L, R),
                         DIVISOR_2 |-> DIVISOR_2(L, R),
                         RD_TIMES_LN |-> RD_TIMES_LN(L, R),
                         LD_TIMES_RN |-> LD_TIMES_RN(L, R),
                         LN_TIMES_RN |-> LN_TIMES_RN(L, R),
                         RD_TIMES_LD |-> RD_TIMES_LD(L, R),
                         RATE_TO_DURATION_NUMERATOR |->
                             RATE_TO_DURATION_NUMERATOR(L, R),
                         SAME_BASE |-> SAME_BASE(L, R)])

(***************************************************************************)
(* Duration (duration.rs)                                                  *)
(***************************************************************************)
\* Duration::from_ticks without the two asserts on the scale (mutant)
Duration_from_ticks_unasserted(S, ticks) == Some(ticks)

\* Duration::from_ticks wrapped in Some: aborts on an invalid scale
Duration_from_ticks(S, ticks) ==
    IF S.num > 0 /\ S.denom > 0 THEN Some(ticks) ELSE Panic

\* `lh / (RD_TIMES_LN as $i)`: integer division, aborting on a zero divisor
div_or_panic(lh, d) == IF d = 0 THEN Panic ELSE Some(lh \div d)

\* Duration::checked_add: self has scale S, other has scale R
Duration_checked_add(t, S, R, self, other) ==
    IF SAME_BASE(S, R)
    THEN LET r == checked_add(t, self, other)
         IN  IF r.tag = "Some" THEN Duration_from_ticks(S, r.val) ELSE None
    ELSE LET lh == checked_mul(t, other, as(LD_TIMES_RN(S, R), t))
         IN  IF lh.tag = "Some"
             THEN LET ticks == div_or_panic(lh.val, as(RD_TIMES_LN(S, R), t))
                  IN  IF ticks.tag = "Panic" THEN Panic
                      ELSE LET r == checked_add(t, self, ticks.val)
                           IN  IF r.tag = "Some"
                               THEN Duration_from_ticks(S, r.val)
                               ELSE None
             ELSE None

\* Duration::checked_sub with both factors exchanged (mutant)
Duration_checked_sub_swapped(t, S, R, self, other) ==
    IF SAME_BASE(S, R)
    THEN LET r == checked_sub(t, self, other)
         IN  IF r.tag = "Some" THEN Duration_from_ticks(S, r.val) ELSE None
    ELSE LET lh == checked_mul(t, other, as(RD_TIMES_LN(S, R), t))
         IN  IF lh.tag = "Some"
             THEN LET ticks == div_or_panic(lh.val, as(LD_TIMES_RN(S, R), t))
                  IN  IF ticks.tag = "Panic" THEN Panic
                      ELSE LET r == checked_sub(t, self, ticks.val)
                           IN  IF r.tag = "Some"
                               THEN Duration_from_ticks(S, r.val)
                               ELSE None
             ELSE None

\* Duration::checked_sub: self has scale S, other has scale R
Duration_checked_sub(t, S, R, self, other) ==
    IF SAME_BASE(S, R)
    THEN LET r == checked_sub(t, self, other)
         IN  IF r.tag = "Some" THEN Duration_from_ticks(S, r.val) ELSE None
    ELSE LET lh == checked_mul(t, other, as(LD_TIMES_RN(S, R), t))
         IN  IF lh.tag = "Some"
             THEN LET ticks == div_or_panic(lh.val, as(RD_TIMES_LN(S, R), t))
                  IN  IF ticks.tag = "Panic" THEN Panic
                      ELSE LET r == checked_sub(t, self, ticks.val)
                           IN  IF r.tag = "Some"
                               THEN Duration_from_ticks(S, r.val)
                               ELSE None
             ELSE None

\* Duration::_const_cmp
Duration_const_cmp(x, y) ==
    IF x < y THEN "Less" ELSE IF x > y THEN "Greater" ELSE "Equal"

\* Duration::const_partial_cmp: self has scale S, other has scale R
Duration_const_partial_cmp(t, S, R, self, other) ==
    IF SAME_BASE(S, R)
    THEN Some(Duration_const_cmp(self, other))
    ELSE LET lh == checked_mul(t, self, as(RD_TIMES_LN(S, R), t))
             rh == checked_mul(t, other, as(LD_TIMES_RN(S, R), t))
         IN  IF lh.tag = "Some" /\ rh.tag = "Some"
             THEN Some(Duration_const_cmp(lh.val, rh.val))
             ELSE None

\* Duration::const_eq: self has scale S, other has scale R
Duration_const_eq(t, S, R, self, other) ==
    IF SAME_BASE(S, R)
    THEN self = other
    ELSE LET lh == checked_mul(t, self, as(RD_TIMES_LN(S, R), t))
             rh == checked_mul(t, other, as(LD_TIMES_RN(S, R), t))
         IN  IF lh.tag = "Some" /\ rh.tag = "Some"
             THEN lh.val = rh.val
             ELSE FALSE

\* Duration::const_try_from multiplying in $i instead of u64 (mutant)
Duration_const_try_from_unpromoted(t, I, S, ticks) ==
    IF SAME_BASE(I, S)
    THEN Duration_from_ticks(S, ticks)
    ELSE LET lh == checked_mul(t, ticks, as(RD_TIMES_LN(I, S), t))
         IN  IF lh.tag = "Some"
             THEN LET q == div_or_panic(lh.val, as(LD_TIMES_RN(I, S), t))
                  IN  IF q.tag = "Panic" THEN Panic
                      ELSE IF q.val <= MAX(t)
                           THEN Duration_from_ticks(S, as(q.val, t))
                           ELSE None
             ELSE None

\* Duration::const_try_from with the two factors exchanged (mutant)
Duration_const_try_from_swapped(t, I, S, ticks) ==
    IF SAME_BASE(I, S)
    THEN Duration_from_ticks(S, ticks)
    ELSE LET lh == checked_mul("u64", as(ticks, "u64"), as(LD_TIMES_RN(I, S), "u64"))
         IN  IF lh.tag = "Some"
             THEN LET q == div_or_panic(lh.val, as(RD_TIMES_LN(I, S), "u64"))
                  IN  IF q.tag = "Panic" THEN Panic
                      ELSE IF q.val <= as(MAX(t), "u64")
                           THEN Duration_from_ticks(S, as(q.val, t))
                           ELSE None
             ELSE None

\* Duration::<$i, S>::const_try_from(duration: Duration<$i, I>)
Duration_const_try_from(t, I, S, ticks) ==
    IF SAME_BASE(I, S)
    THEN Duration_from_ticks(S, ticks)
    ELSE LET lh == checked_mul("u64", as(ticks, "u64"), as(RD_TIMES_LN(I, S), "u64"))
         IN  IF lh.tag = "Some"
             THEN LET q == div_or_panic(lh.val, as(LD_TIMES_RN(I, S), "u64"))
                  IN  IF q.tag = "Panic" THEN Panic
                      ELSE IF q.val <= as(MAX(t), "u64")
                           THEN Duration_from_ticks(S, as(q.val, t))
                           ELSE None
             ELSE None

\* Duration::<$i, S>::const_try_into::<R>(self)
Duration_const_try_into(t, S, R, self) == Duration_const_try_from(t, S, R, self)

\* Duration::<$i, S>::convert::<R>(self)
Duration_convert(t, S, R, self) ==
    LET v == Duration_const_try_into(t, S, R, self)
    IN  IF v.tag = "Some" THEN v ELSE Panic

(***************************************************************************)
(* Instant (instant.rs)                                                    *)
(***************************************************************************)
\* Instant::from_ticks wrapped in Some: aborts on an invalid scale
Instant_from_ticks(S, ticks) ==
    IF S.num > 0 /\ S.denom > 0 THEN Some(ticks) ELSE Panic

\* Instant::const_cmp resolving the half-range tie as Greater (mutant)
Instant_const_cmp_tie_greater(t, self, other) ==
    IF self = other
    THEN "Equal"
    ELSE LET v == wrapping_sub(t, self, other)
         IN  IF v > MAX(t) \div 2 THEN "Less" ELSE "Greater"

\* Instant::const_cmp as the ordinary integer order, ignoring wraparound (mutant)
Instant_const_cmp_no_wrap(t, self, other) ==
    IF self < other THEN "Less" ELSE IF self > other THEN "Greater" ELSE "Equal"

\* Instant::const_cmp with the two outcomes of the half-range test exchanged (mutant)
Instant_const_cmp_reversed(t, self, other) ==
    IF self = other
    THEN "Equal"
    ELSE LET v == wrapping_sub(t, self, other)
         IN  IF v > MAX(t) \div 2 THEN "Greater"
             ELSE IF v < MAX(t) \div 2 THEN "Less"
             ELSE "Equal"

\* Instant::const_cmp
Instant_const_cmp(t, self, other) ==
    IF self = other
    THEN "Equal"
    ELSE LET v == wrapping_sub(t, self, other)
         IN  IF v > MAX(t) \div 2 THEN "Less"
             ELSE IF v < MAX(t) \div 2 THEN "Greater"
             ELSE "Equal"

\* PartialOrd::partial_cmp for Instant
Instant_partial_cmp(t, self, other) == Some(Instant_const_cmp(t, self, other))

\* Ord::cmp for Instant
Instant_cmp(t, self, other) == Instant_const_cmp(t, self, other)

\* PartialEq::eq for Instant
Instant_eq(self, other) == self = other

\* Instant::checked_duration_since accepting only Greater (mutant)
Instant_checked_duration_since_strict(t, S, self, other) ==
    IF Instant_const_cmp(t, self, other) = "Greater"
    THEN Duration_from_ticks(S, wrapping_sub(t, self, other))
    ELSE None

\* Instant::checked_duration_since
Instant_checked_duration_since(t, S, self, other) ==
    IF Instant_const_cmp(t, self, other) \in {"Greater", "Equal"}
    THEN Duration_from_ticks(S, wrapping_sub(t, self, other))
    ELSE None

\* Instant::checked_sub_duration: self has scale S, other has scale R
Instant_checked_sub_duration(t, S, R, self, other) ==
    IF SAME_BASE(S, R)
    THEN Instant_from_ticks(S, wrapping_sub(t, self, other))
    ELSE LET lh == checked_mul(t, other, as(LD_TIMES_RN(S, R), t))
         IN  IF lh.tag = "Some"
             THEN LET ticks == div_or_panic(lh.val, as(RD_TIMES_LN(S, R), t))
                  IN  IF ticks.tag = "Panic" THEN Panic
                      ELSE Instant_from_ticks(S, wrapping_sub(t, self, ticks.val))
             ELSE None

\* Instant::checked_add_duration adding with an overflow check instead of
\* wrapping (mutant)
Instant_checked_add_duration_no_wrap(t, S, R, self, other) ==
    LET r == checked_add(t, self, other)
    IN  IF r.tag = "Some" THEN Instant_from_ticks(S, r.val) ELSE None

\* Instant::checked_add_duration: self has scale S, other has scale R
Instant_checked_add_duration(t, S, R, self, other) ==
    IF SAME_BASE(S, R)
    THEN Instant_from_ticks(S, wrapping_add(t, self, other))
    ELSE LET lh == checked_mul(t, other, as(LD_TIMES_RN(S, R), t))
         IN  IF lh.tag = "Some"
             THEN LET ticks == div_or_panic(lh.val, as(RD_TIMES_LN(S, R), t))
                  IN  IF ticks.tag = "Panic" THEN Panic
                      ELSE Instant_from_ticks(S, wrapping_add(t, self, ticks.val))
             ELSE None

(***************************************************************************)
(* Named-unit constructors of Duration (macro shorthand!, duration.rs)     *)
(***************************************************************************)
\* the two builds of an unchecked `*`: overflow checks on (abort on
\* overflow) or off (wrap)
OverflowChecks == BOOLEAN

\* `x * y` in $i: on overflow the build decides between abort and wrap
unchecked_mul(t, x, y, oc) ==
    IF x * y > MAX(t)
    THEN IF oc THEN Panic ELSE Some((x * y) % (2 ^ BITS(t)))
    ELSE Some(x * y)

\* $i::div_ceil: aborts on a zero divisor
div_ceil(x, d) ==
    IF d = 0 THEN Panic
    ELSE IF x % d > 0 THEN Some((x \div d) + 1) ELSE Some(x \div d)

\* Duration::<$i, S>::$unit(val) of the unit scale U ($frac)
Duration_unit(t, U, S, val, oc) ==
    LET mul == unchecked_mul(t, as(RD_TIMES_LN(U, S), t), val, oc)
    IN  IF mul.tag = "Panic" THEN Panic
        ELSE LET q == div_or_panic(mul.val, as(LD_TIMES_RN(U, S), t))
             IN  IF q.tag = "Panic" THEN Panic
                 ELSE Duration_from_ticks(S, q.val)

\* Duration::<$i, S>::$unital(val) of the unit scale U ($frac)
Duration_unit_at_least(t, U, S, val, oc) ==
    LET mul == unchecked_mul(t, as(RD_TIMES_LN(U, S), t), val, oc)
        ld_times_rn == as(LD_TIMES_RN(U, S), t)
    IN  IF mul.tag = "Panic" THEN Panic
        ELSE LET q == div_ceil(mul.val, ld_times_rn)
             IN  IF q.tag = "Panic" THEN Panic
                 ELSE Duration_from_ticks(S, q.val)

(***************************************************************************)
(* Rate and the reciprocal conversions (rate.rs, duration.rs)              *)
(***************************************************************************)
\* Rate::from_raw wrapped in Some: aborts on an invalid scale
Rate_from_raw(S, raw) ==
    IF S.num > 0 /\ S.denom > 0 THEN Some(raw) ELSE Panic

\* Rate::checked_add: self has scale S, other has scale R
Rate_checked_add(t, S, R, self, other) ==
    IF SAME_BASE(S, R)
    THEN LET r == checked_add(t, self, other)
         IN  IF r.tag = "Some" THEN Rate_from_raw(S, r.val) ELSE None
    ELSE LET lh == checked_mul(t, other, as(LD_TIMES_RN(S, R), t))
         IN  IF lh.tag = "Some"
             THEN LET raw == div_or_panic(lh.val, as(RD_TIMES_LN(S, R), t))
                  IN  IF raw.tag = "Panic" THEN Panic
                      ELSE LET r == checked_add(t, self, raw.val)
                           IN  IF r.tag = "Some"
                               THEN Rate_from_raw(S, r.val)
                               ELSE None
             ELSE None

\* Rate::checked_sub subtracting other.raw without rescaling it (mutant)
Rate_checked_sub_unscaled(t, S, R, self, other) ==
    LET r == checked_sub(t, self, other)
    IN  IF r.tag = "Some" THEN Rate_from_raw(S, r.val) ELSE None

\* Rate::checked_sub: self has scale S, other has scale R
Rate_checked_sub(t, S, R, self, other) ==
    IF SAME_BASE(S, R)
    THEN LET r == checked_sub(t, self, other)
         IN  IF r.tag = "Some" THEN Rate_from_raw(S, r.val) ELSE None
    ELSE LET lh == checked_mul(t, other, as(LD_TIMES_RN(S, R), t))
         IN  IF lh.tag = "Some"
             THEN LET raw == div_or_panic(lh.val, as(RD_TIMES_LN(S, R), t))
                  IN  IF raw.tag = "Panic" THEN Panic
                      ELSE LET r == checked_sub(t, self, raw.val)
                           IN  IF r.tag = "Some"
                               THEN Rate_from_raw(S, r.val)
                               ELSE None
             ELSE None

\* Rate::_const_cmp
Rate_const_cmp(x, y) ==
    IF x < y THEN "Less" ELSE IF x > y THEN "Greater" ELSE "Equal"

\* Rate::const_partial_cmp: self has scale S, other has scale R
Rate_const_partial_cmp(t, S, R, self, other) ==
    IF SAME_BASE(S, R)
    THEN Some(Rate_const_cmp(self, other))
    ELSE LET lh == checked_mul(t, self, as(RD_TIMES_LN(S, R), t))
             rh == checked_mul(t, other, as(LD_TIMES_RN(S, R), t))
         IN  IF lh.tag = "Some" /\ rh.tag = "Some"
             THEN Some(Rate_const_cmp(lh.val, rh.val))
             ELSE None

\* Rate::const_eq: self has scale S, other has scale R
Rate_const_eq(t, S, R, self, other) ==
    IF SAME_BASE(S, R)
    THEN self = other
    ELSE LET lh == checked_mul(t, self, as(RD_TIMES_LN(S, R), t))
             rh == checked_mul(t, other, as(LD_TIMES_RN(S, R), t))
         IN  IF lh.tag = "Some" /\ rh.tag = "Some"
             THEN lh.val = rh.val
             ELSE FALSE

\* Rate::<$i, S>::const_try_from(rate: Rate<$i, I>)
Rate_const_try_from(t, I, S, raw) ==
    IF SAME_BASE(I, S)
    THEN Rate_from_raw(S, raw)
    ELSE LET lh == checked_mul("u64", as(raw, "u64"), as(RD_TIMES_LN(I, S), "u64"))
         IN  IF lh.tag = "Some"
             THEN LET q == div_or_panic(lh.val, as(LD_TIMES_RN(I, S), "u64"))
                  IN  IF q.tag = "Panic" THEN Panic
                      ELSE IF q.val <= as(MAX(t), "u64")
                           THEN Rate_from_raw(S, as(q.val, t))
                           ELSE None
             ELSE None

\* Rate::<$i, S>::const_try_into::<R>(self)
Rate_const_try_into(t, S, R, self) == Rate_const_try_from(t, S, R, self)

\* Duration::try_from_rate without the test of rate.raw (mutant)
Duration_try_from_rate_unguarded(t, I, S, raw) ==
    LET q == div_or_panic(as(RATE_TO_DURATION_NUMERATOR(I, S), t), raw)
    IN  IF q.tag = "Panic" THEN Panic ELSE Duration_from_ticks(S, q.val)

\* Duration::<$i, S>::try_from_rate(rate: Rate<$i, I>)
Duration_try_from_rate(t, I, S, raw) ==
    IF raw > 0
    THEN Duration_from_ticks(S,
             as(RATE_TO_DURATION_NUMERATOR(I, S), t) \div raw)
    ELSE None

\* Duration::<$i, S>::from_rate(rate: Rate<$i, I>)
Duration_from_rate(t, I, S, raw) ==
    LET v == Duration_try_from_rate(t, I, S, raw)
    IN  IF v.tag = "Some" THEN v ELSE Panic

\* Rate::<$i, S>::try_from_duration(duration: Duration<$i, I>)
Rate_try_from_duration(t, I, S, ticks) ==
    IF ticks > 0
    THEN Rate_from_raw(S,
             as(RATE_TO_DURATION_NUMERATOR(I, S), t) \div ticks)
    ELSE None

\* Rate::<$i, S>::from_duration(duration: Duration<$i, I>)
Rate_from_duration(t, I, S, ticks) ==
    LET v == Rate_try_from_duration(t, I, S, ticks)
    IN  IF v.tag = "Some" THEN v ELSE Panic

\* Duration::<$i, S>::try_into_rate::<R>(self)
Duration_try_into_rate(t, S, R, self) == Rate_try_from_duration(t, S, R, self)

\* Duration::<$i, S>::into_rate::<R>(self)
Duration_into_rate(t, S, R, self) ==
    LET v == Duration_try_into_rate(t, S, R, self)
    IN  IF v.tag = "Some" THEN v ELSE Panic

\* Rate::<$i, S>::try_into_duration::<R>(self)
Rate_try_into_duration(t, S, R, self) == Duration_try_from_rate(t, S, R, self)

\* Rate::<$i, S>::into_duration::<R>(self)
Rate_into_duration(t, S, R, self) ==
    LET v == Rate_try_into_duration(t, S, R, self)
    IN  IF v.tag = "Some" THEN v ELSE Panic

(***************************************************************************)
(* Operations between u32 and u64 (duration.rs, rate.rs)                   *)
(***************************************************************************)
\* Result<$i, ()>
Ok(v) == [tag |-> "Ok", val |-> v]
Err == [tag |-> "Err", val |-> 0]

\* narrowing by a truncating `as u32` instead of try_into (mutant)
u64_try_into_u32_truncating(x) == Ok(as(x, "u32"))

\* <u64 as TryInto<u32>>::try_into mapped with map_err(|_| ())
u64_try_into_u32(x) == IF x <= MAX("u32") THEN Ok(x) ELSE Err

\* From<Duration<u32, S>> for Duration<u64, S>
Duration_u64_from(S, ticks) == Duration_from_ticks(S, as(ticks, "u64"))

\* TryFrom<Duration<u64, S>> for Duration<u32, S>
Duration_u32_try_from(S, ticks) ==
    LET n == u64_try_into_u32(ticks)
    IN  IF n.tag = "Err" THEN Err
        ELSE IF Duration_from_ticks(S, n.val).tag = "Panic" THEN Panic
             ELSE Ok(Duration_from_ticks(S, n.val).val)

\* From<Rate<u32, S>> for Rate<u64, S>
Rate_u64_from(S, raw) == Rate_from_raw(S, as(raw, "u64"))

\* TryFrom<Rate<u64, S>> for Rate<u32, S>
Rate_u32_try_from(S, raw) ==
    LET n == u64_try_into_u32(raw)
    IN  IF n.tag = "Err" THEN Err
        ELSE IF Rate_from_raw(S, n.val).tag = "Panic" THEN Panic
             ELSE Ok(Rate_from_raw(S, n.val).val)

(***************************************************************************)
(* Operators (ops::Add, ops::Sub and their assigning forms)                *)
(***************************************************************************)
\* Duration + Duration adding with wraparound instead of aborting (mutant)
Duration_add_wrapping(t, S, self, other) ==
    Duration_from_ticks(S, wrapping_add(t, self, other))

\* ops::Add for Duration<$i, S>
Duration_add(t, S, self, other) ==
    LET v == Duration_checked_add(t, S, S, self, other)
    IN  IF v.tag = "Some" THEN v ELSE Panic

\* ops::Sub for Duration<$i, S>
Duration_sub(t, S, self, other) ==
    LET v == Duration_checked_sub(t, S, S, self, other)
    IN  IF v.tag = "Some" THEN v ELSE Panic

\* ops::AddAssign for Duration<$i, S>: the new value of self
Duration_add_assign(t, S, self, other) == Duration_add(t, S, self, other)

\* ops::SubAssign for Duration<$i, S>: the new value of self
Duration_sub_assign(t, S, self, other) == Duration_sub(t, S, self, other)

\* ops::Add for Rate<$i, S>
Rate_add(t, S, self, other) ==
    LET v == Rate_checked_add(t, S, S, self, other)
    IN  IF v.tag = "Some" THEN v ELSE Panic

\* ops::Sub for Rate<$i, S>
Rate_sub(t, S, self, other) ==
    LET v == Rate_checked_sub(t, S, S, self, other)
    IN  IF v.tag = "Some" THEN v ELSE Panic

\* ops::AddAssign for Rate<$i, S>: the new value of self
Rate_add_assign(t, S, self, other) == Rate_add(t, S, self, other)

\* ops::Sub<Rate<u32, S>> for Rate<u64, S>
Rate_u64_sub_u32(S, self, other) ==
    LET rhs == Rate_from_raw(S, as(other, "u64"))
    IN  IF rhs.tag = "Panic" THEN Panic
        ELSE LET v == Rate_checked_sub("u64", S, S, self, rhs.val)
             IN  IF v.tag = "Some" THEN v ELSE Panic

\* ops::SubAssign<Rate<u32, S>> for Rate<u64, S>: the new value of self
Rate_u64_sub_assign_u32(S, self, other) == Rate_u64_sub_u32(S, self, other)

\* ops::Sub<Instant<$i, S>> for Instant<$i, S>
Instant_sub(t, S, self, other) ==
    LET v == Instant_checked_duration_since(t, S, self, other)
    IN  IF v.tag = "Some" THEN v ELSE Panic

(***************************************************************************)
(* Multiplication and division operators (duration.rs, rate.rs)            *)
(***************************************************************************)
\* ops::Mul<u32> for Duration<$i, F>: `self.ticks *= other as $i`
Duration_mul(t, self, other, oc) == unchecked_mul(t, self, as(other, t), oc)

\* ops::Mul<Duration<$i, F>> for u32: `other.ticks *= self as $i`
u32_mul_Duration(t, self, other, oc) ==
    unchecked_mul(t, other, as(self, t), oc)

\* ops::MulAssign<u32> for Duration<$i, F>: the new value of self
Duration_mul_assign(t, self, other, oc) == Duration_mul(t, self, other, oc)

\* ops::Mul<u32> for Rate<$i, F>: `self.raw *= other as $i`
Rate_mul(t, self, other, oc) == unchecked_mul(t, self, as(other, t), oc)

\* ops::Mul<Rate<$i, F>> for u32: `other.raw *= self as $i`
u32_mul_Rate(t, self, other, oc) == unchecked_mul(t, other, as(self, t), oc)

\* ops::MulAssign<u32> for Rate<$i, F>: the new value of self
Rate_mul_assign(t, self, other, oc) == Rate_mul(t, self, other, oc)

\* Duration / Duration converting the right-hand operand into the base of
\* the left-hand one (mutant)
Duration_div_Duration_rhs_converted(t, L, R, self, other) ==
    LET conv == Duration_convert(t, R, L, other)
    IN  IF conv.tag = "Panic" THEN Panic ELSE div_or_panic(self, conv.val)

\* ops::Div<Duration<$i, R>> for Duration<$i, L>
Duration_div_Duration(t, L, R, self, other) ==
    LET conv == Duration_convert(t, L, R, self)
    IN  IF conv.tag = "Panic" THEN Panic ELSE div_or_panic(conv.val, other)

(***************************************************************************)
(* Period shorthands of Rate (rate.rs)                                     *)
(***************************************************************************)
\* Rate::<$i, S>::from_duration(Duration::<$i, U>::from_ticks(val))
Rate_from_period(t, U, S, val) ==
    LET d == Duration_from_ticks(U, val)
    IN  IF d.tag = "Panic" THEN Panic ELSE Rate_from_duration(t, U, S, d.val)

\* Rate::<$i, S>::nanos(val)
Rate_nanos(t, S, val) == Rate_from_period(t, Fraction_NANO, S, val)

\* Rate::<$i, S>::micros(val)
Rate_micros(t, S, val) == Rate_from_period(t, Fraction_MICRO, S, val)

\* Rate::<$i, S>::millis(val)
Rate_millis(t, S, val) == Rate_from_period(t, Fraction_KILO, S, val)

(***************************************************************************)
(* Type aliases (aliases.rs): an alias denotes a type, given here by its   *)
(* kind, its backing integer and its scale                                 *)
(***************************************************************************)
NANO == Fraction_NANO
MICRO == Fraction_MICRO
MILLI == Fraction_MILLI
ONE == Fraction_ONE
\* Fraction::new(60, 1) and Fraction::new(3600, 1), scaled down to 3 and 6
MIN == Fraction(3, 1)
HOUR == Fraction(6, 1)
KILO == Fraction_KILO
MEGA == Fraction_MEGA

\* the type Duration<t, S>, Instant<t, S> or Rate<t, S>
Duration(t, S) == [kind |-> "Duration", T |-> t, F |-> S]
Instant(t, S) == [kind |-> "Instant", T |-> t, F |-> S]
Rate(t, S) == [kind |-> "Rate", T |-> t, F |-> S]

\* the generic aliases, each with a U32 and a U64 form
AliasFamilies ==
    {"NanosDuration",
     "MicrosDuration",
     "MillisDuration",
     "SecsDuration",
     "MinutesDuration",
     "HoursDuration",
     "TimerDuration",
     "TimerInstant",
     "Hertz",
     "Kilohertz",
     "Megahertz",
     "TimerRate"}

\* the generic alias of a family at backing type t (and frequency freq);
\* under each arm the name of the alias it gives
GenericAlias(fam, t, freq) ==
    CASE fam = "NanosDuration" -> Duration(t, NANO)
           \* NanosDuration
      [] fam = "MicrosDuration" -> Duration(t, MICRO)
           \* MicrosDuration
      [] fam = "MillisDuration" -> Duration(t, MILLI)
           \* MillisDuration
      [] fam = "SecsDuration" -> Duration(t, ONE)
           \* SecsDuration
      [] fam = "MinutesDuration" -> Duration(t, MIN)
           \* MinutesDuration
      [] fam = "HoursDuration" -> Duration(t, HOUR)
           \* HoursDuration
      [] fam = "TimerDuration" -> Duration(t, Fraction(1, freq))
           \* TimerDuration
      [] fam = "TimerInstant" -> Instant(t, Fraction(1, freq))
           \* TimerInstant
      [] fam = "Hertz" -> Rate(t, ONE)
           \* Hertz
      [] fam = "Kilohertz" -> Rate(t, KILO)
           \* Kilohertz
      [] fam = "Megahertz" -> Rate(t, MEGA)
           \* Megahertz
      [] fam = "TimerRate" -> Rate(t, Fraction(freq, 1))
           \* TimerRate

\* the width-specific alias of a family for backing type t; under each arm
\* the name of the alias it gives
WidthAlias(fam, t, freq) ==
    CASE fam = "NanosDuration" /\ t = "u32" -> Duration("u32", MICRO)
           \* NanosDurationU32
      [] fam = "NanosDuration" /\ t = "u64" -> Duration("u64", NANO)
           \* NanosDurationU64
      [] fam = "MicrosDuration" /\ t = "u32" -> Duration("u32", MICRO)
           \* MicrosDurationU32
      [] fam = "MicrosDuration" /\ t = "u64" -> Duration("u64", MICRO)
           \* MicrosDurationU64
      [] fam = "MillisDuration" /\ t = "u32" -> Duration("u32", MILLI)
           \* MillisDurationU32
      [] fam = "MillisDuration" /\ t = "u64" -> Duration("u64", MILLI)
           \* MillisDurationU64
      [] fam = "SecsDuration" /\ t = "u32" -> Duration("u32", ONE)
           \* SecsDurationU32
      [] fam = "SecsDuration" /\ t = "u64" -> Duration("u64", ONE)
           \* SecsDurationU64
      [] fam = "MinutesDuration" /\ t = "u32" -> Duration("u32", MIN)
           \* MinutesDurationU32
      [] fam = "MinutesDuration" /\ t = "u64" -> Duration("u64", MIN)
           \* MinutesDurationU64
      [] fam = "HoursDuration" /\ t = "u32" -> Duration("u32", HOUR)
           \* HoursDurationU32
      [] fam = "HoursDuration" /\ t = "u64" -> Duration("u64", HOUR)
           \* HoursDurationU64
      [] fam = "TimerDuration" /\ t = "u32" -> Duration("u32", Fraction(1, freq))
           \* TimerDurationU32
      [] fam = "TimerDuration" /\ t = "u64" -> Duration("u64", Fraction(1, freq))
           \* TimerDurationU64
      [] fam = "TimerInstant" /\ t = "u32" -> Instant("u32", Fraction(1, freq))
           \* TimerInstantU32
      [] fam = "TimerInstant" /\ t = "u64" -> Instant("u64", Fraction(1, freq))
           \* TimerInstantU64
      [] fam = "Hertz" /\ t = "u32" -> Rate("u32", ONE)
           \* HertzU32
      [] fam = "Hertz" /\ t = "u64" -> Rate("u64", ONE)
           \* HertzU64
      [] fam = "Kilohertz" /\ t = "u32" -> Rate("u32", KILO)
           \* KilohertzU32
      [] fam = "Kilohertz" /\ t = "u64" -> Rate("u64", KILO)
           \* KilohertzU64
      [] fam = "Megahertz" /\ t = "u32" -> Rate("u32", MEGA)
           \* MegahertzU32
      [] fam = "Megahertz" /\ t = "u64" -> Rate("u64", MEGA)
           \* MegahertzU64
      [] fam = "TimerRate" /\ t = "u32" -> Rate("u32", Fraction(freq, 1))
           \* TimerRateU32
      [] fam = "TimerRate" /\ t = "u64" -> Rate("u64", Fraction(freq, 1))
           \* TimerRateU64

(***************************************************************************)
(* State machine: the inputs are drawn in Init, an action applies one      *)
(* operation to them and records its result.                               *)
(*   T     backing type of the operands                                    *)
(*   F, O  scale of self and scale of the other operand / the target       *)
(*   a, b, c  tick counts                                                  *)
(*   op    the operation applied ("init" before any)                       *)
(*   out   its result; out2 the result of a follow-up operation            *)
(***************************************************************************)
InitArith ==
    /\ T \in Types
    /\ F \in Scales
    /\ O \in Scales
    /\ a \in Values(T)
    /\ b \in Values(T)
    /\ c = 0
    /\ op = "init"
    /\ out = None
    /\ out2 = None

\* s = a.checked_add(b)
DurationCheckedAdd ==
    /\ op = "init"
    /\ op' = "checked_add"
    /\ out' = Duration_checked_add(T, F, O, a, b)
    /\ UNCHANGED <<T, F, O, a, b, c, out2>>

\* a.checked_sub(b)
DurationCheckedSub ==
    /\ op = "init"
    /\ op' = "checked_sub"
    /\ out' = Duration_checked_sub(T, F, O, a, b)
    /\ UNCHANGED <<T, F, O, a, b, c, out2>>

\* s.checked_sub(b) for the s = Some(..) returned by a.checked_add(b)
DurationSubAfterAdd ==
    /\ op = "checked_add"
    /\ out.tag = "Some"
    /\ op' = "add_then_sub"
    /\ out2' = Duration_checked_sub(T, F, O, out.val, b)
    /\ UNCHANGED <<T, F, O, a, b, c, out>>

NextArith == DurationCheckedAdd \/ DurationCheckedSub \/ DurationSubAfterAdd

SpecArith == InitArith /\ [][NextArith]_vars

(***************************************************************************)
(* Duration conversion: one operand a of scale F, target scale O           *)
(***************************************************************************)
InitConv ==
    /\ T \in Types
    /\ F \in Scales
    /\ O \in Scales
    /\ a \in Values(T)
    /\ b = 0
    /\ c = 0
    /\ op = "init"
    /\ out = None
    /\ out2 = None

\* a.const_try_into::<O>()
DurationConstTryInto ==
    /\ op = "init"
    /\ op' = "const_try_into"
    /\ out' = Duration_const_try_into(T, F, O, a)
    /\ UNCHANGED <<T, F, O, a, b, c, out2>>

\* a.convert::<O>(), next to what const_try_into returns for the same input
DurationConvert ==
    /\ op = "init"
    /\ op' = "convert"
    /\ out' = Duration_convert(T, F, O, a)
    /\ out2' = Duration_const_try_into(T, F, O, a)
    /\ UNCHANGED <<T, F, O, a, b, c>>

\* a.convert::<O>().convert::<F>(): the converted value is converted back
DurationConvertBack ==
    /\ op = "convert"
    /\ out.tag = "Some"
    /\ op' = "convert_back"
    /\ out2' = Duration_convert(T, O, F, out.val)
    /\ UNCHANGED <<T, F, O, a, b, c, out>>

NextConv == DurationConstTryInto \/ DurationConvert \/ DurationConvertBack

SpecConv == InitConv /\ [][NextConv]_vars

(***************************************************************************)
(* Duration comparison: a of scale F against b of scale O                  *)
(***************************************************************************)
\* a.const_partial_cmp(b), which is also PartialOrd::partial_cmp
DurationConstPartialCmp ==
    /\ op = "init"
    /\ op' = "const_partial_cmp"
    /\ out' = Duration_const_partial_cmp(T, F, O, a, b)
    /\ UNCHANGED <<T, F, O, a, b, c, out2>>

\* a.const_eq(b), which is also PartialEq::eq
DurationConstEq ==
    /\ op = "init"
    /\ op' = "const_eq"
    /\ out' = Some(Duration_const_eq(T, F, O, a, b))
    /\ UNCHANGED <<T, F, O, a, b, c, out2>>

NextCompare == DurationConstPartialCmp \/ DurationConstEq

SpecCompare == InitArith /\ [][NextCompare]_vars

(***************************************************************************)
(* Instant comparison: instants a, b (and c) of one scale                  *)
(***************************************************************************)
InitInstant ==
    /\ T \in Types
    /\ F = Fraction(1, MaxDenom)
    /\ O = F
    /\ a \in Values(T)
    /\ b \in Values(T)
    /\ c = 0
    /\ op = "init"
    /\ out = None
    /\ out2 = None

\* a.const_cmp(b)
InstantConstCmp ==
    /\ op = "init"
    /\ op' = "const_cmp"
    /\ out' = Some(Instant_const_cmp(T, a, b))
    /\ UNCHANGED <<T, F, O, a, b, c, out2>>

\* a.partial_cmp(&b)
InstantPartialCmp ==
    /\ op = "init"
    /\ op' = "partial_cmp"
    /\ out' = Instant_partial_cmp(T, a, b)
    /\ UNCHANGED <<T, F, O, a, b, c, out2>>

\* a.cmp(&b)
InstantCmp ==
    /\ op = "init"
    /\ op' = "cmp"
    /\ out' = Some(Instant_cmp(T, a, b))
    /\ UNCHANGED <<T, F, O, a, b, c, out2>>

\* a < b, b < c and a < c evaluated for a third instant c
InstantCmpChain ==
    /\ op = "init"
    /\ \E x \in Values(T) :
          /\ c' = x
          /\ out' = Some(<<Instant_cmp(T, a, b), Instant_cmp(T, b, x),
                           Instant_cmp(T, a, x)>>)
    /\ op' = "cmp_chain"
    /\ UNCHANGED <<T, F, O, a, b, out2>>

\* a.checked_duration_since(b)
InstantCheckedDurationSince ==
    /\ op = "init"
    /\ op' = "checked_duration_since"
    /\ out' = Instant_checked_duration_since(T, F, a, b)
    /\ UNCHANGED <<T, F, O, a, b, c, out2>>

NextInstant ==
    \/ InstantConstCmp
    \/ InstantPartialCmp
    \/ InstantCmp
    \/ InstantCmpChain
    \/ InstantCheckedDurationSince

SpecInstant == InitInstant /\ [][NextInstant]_vars

(***************************************************************************)
(* Instant +/- Duration: instant a of scale F, duration b of scale O       *)
(***************************************************************************)
\* a.checked_add_duration(b)
InstantCheckedAddDuration ==
    /\ op = "init"
    /\ op' = "checked_add_duration"
    /\ out' = Instant_checked_add_duration(T, F, O, a, b)
    /\ UNCHANGED <<T, F, O, a, b, c, out2>>

\* a.checked_sub_duration(b)
InstantCheckedSubDuration ==
    /\ op = "init"
    /\ op' = "checked_sub_duration"
    /\ out' = Instant_checked_sub_duration(T, F, O, a, b)
    /\ UNCHANGED <<T, F, O, a, b, c, out2>>

NextInstantDuration == InstantCheckedAddDuration \/ InstantCheckedSubDuration

SpecInstantDuration == InitArith /\ [][NextInstantDuration]_vars

(***************************************************************************)
(* Helpers: the constants of the scale pair (F, O), every component being   *)
(* any non-zero u32                                                        *)
(***************************************************************************)
InitHelpers ==
    /\ T = "u64"
    /\ F \in {Fraction(n, d) : n \in 1 .. MAX("u32"), d \in 1 .. MAX("u32")}
    /\ O \in {Fraction(n, d) : n \in 1 .. MAX("u32"), d \in 1 .. MAX("u32")}
    /\ a = 0
    /\ b = 0
    /\ c = 0
    /\ op = "init"
    /\ out = None
    /\ out2 = None

\* Helpers::<F, O> and Helpers::<O, F> are evaluated
HelpersEval ==
    /\ op = "init"
    /\ op' = "helpers"
    /\ out' = Helpers_eval(F, O)
    /\ out2' = Helpers_eval(O, F)
    /\ UNCHANGED <<T, F, O, a, b, c>>

NextHelpers == HelpersEval

SpecHelpers == InitHelpers /\ [][NextHelpers]_vars

(***************************************************************************)
(* Reciprocal conversion: a rate or a duration a of scale F, target scale O *)
(***************************************************************************)
DurationTryFromRate ==
    /\ op = "init"
    /\ op' = "try_from_rate"
    /\ out' = Duration_try_from_rate(T, F, O, a)
    /\ UNCHANGED <<T, F, O, a, b, c, out2>>

DurationFromRate ==
    /\ op = "init"
    /\ op' = "from_rate"
    /\ out' = Duration_from_rate(T, F, O, a)
    /\ UNCHANGED <<T, F, O, a, b, c, out2>>

RateTryIntoDuration ==
    /\ op = "init"
    /\ op' = "try_into_duration"
    /\ out' = Rate_try_into_duration(T, F, O, a)
    /\ UNCHANGED <<T, F, O, a, b, c, out2>>

RateIntoDuration ==
    /\ op = "init"
    /\ op' = "into_duration"
    /\ out' = Rate_into_duration(T, F, O, a)
    /\ UNCHANGED <<T, F, O, a, b, c, out2>>

RateTryFromDuration ==
    /\ op = "init"
    /\ op' = "try_from_duration"
    /\ out' = Rate_try_from_duration(T, F, O, a)
    /\ UNCHANGED <<T, F, O, a, b, c, out2>>

RateFromDuration ==
    /\ op = "init"
    /\ op' = "from_duration"
    /\ out' = Rate_from_duration(T, F, O, a)
    /\ UNCHANGED <<T, F, O, a, b, c, out2>>

DurationTryIntoRate ==
    /\ op = "init"
    /\ op' = "try_into_rate"
    /\ out' = Duration_try_into_rate(T, F, O, a)
    /\ UNCHANGED <<T, F, O, a, b, c, out2>>

DurationIntoRate ==
    /\ op = "init"
    /\ op' = "into_rate"
    /\ out' = Duration_into_rate(T, F, O, a)
    /\ UNCHANGED <<T, F, O, a, b, c, out2>>

NextReciprocal ==
    \/ DurationTryFromRate
    \/ DurationFromRate
    \/ RateTryIntoDuration
    \/ RateIntoDuration
    \/ RateTryFromDuration
    \/ RateFromDuration
    \/ DurationTryIntoRate
    \/ DurationIntoRate

SpecReciprocal == InitConv /\ [][NextReciprocal]_vars

(***************************************************************************)
(* Named-unit constructors: a units of scale F made a Duration of scale O   *)
(***************************************************************************)
\* Duration::<T, O>::$unit(a), in either build
DurationUnit ==
    /\ op = "init"
    /\ op' = "unit"
    /\ \E oc \in OverflowChecks : out' = Duration_unit(T, F, O, a, oc)
    /\ UNCHANGED <<T, F, O, a, b, c, out2>>

\* Duration::<T, O>::$unital(a) next to Duration::<T, O>::$unit(a), in
\* either build
DurationUnitAtLeast ==
    /\ op = "init"
    /\ op' = "unit_at_least"
    /\ \E oc \in OverflowChecks :
           /\ out' = Duration_unit_at_least(T, F, O, a, oc)
           /\ out2' = Duration_unit(T, F, O, a, oc)
    /\ UNCHANGED <<T, F, O, a, b, c>>

NextShorthand == DurationUnit \/ DurationUnitAtLeast

SpecShorthand == InitConv /\ [][NextShorthand]_vars

(***************************************************************************)
(* Width bridge: a value a of backing type T and scale F                   *)
(***************************************************************************)
InitWidth ==
    /\ T \in Types
    /\ F \in Scales
    /\ O = F
    /\ a \in Values(T)
    /\ b = 0
    /\ c = 0
    /\ op = "init"
    /\ out = None
    /\ out2 = None

\* Duration::<u64, F>::from(a), a a Duration<u32, F>
DurationWiden ==
    /\ op = "init"
    /\ T = "u32"
    /\ op' = "duration_widen"
    /\ out' = Duration_u64_from(F, a)
    /\ UNCHANGED <<T, F, O, a, b, c, out2>>

\* Duration::<u32, F>::try_from(a), a a Duration<u64, F>
DurationNarrow ==
    /\ op = "init"
    /\ T = "u64"
    /\ op' = "duration_narrow"
    /\ out' = Duration_u32_try_from(F, a)
    /\ UNCHANGED <<T, F, O, a, b, c, out2>>

\* the widened duration is narrowed again
DurationNarrowAfterWiden ==
    /\ op = "duration_widen"
    /\ out.tag = "Some"
    /\ op' = "duration_widen_narrow"
    /\ out2' = Duration_u32_try_from(F, out.val)
    /\ UNCHANGED <<T, F, O, a, b, c, out>>

\* Rate::<u64, F>::from(a), a a Rate<u32, F>
RateWiden ==
    /\ op = "init"
    /\ T = "u32"
    /\ op' = "rate_widen"
    /\ out' = Rate_u64_from(F, a)
    /\ UNCHANGED <<T, F, O, a, b, c, out2>>

\* Rate::<u32, F>::try_from(a), a a Rate<u64, F>
RateNarrow ==
    /\ op = "init"
    /\ T = "u64"
    /\ op' = "rate_narrow"
    /\ out' = Rate_u32_try_from(F, a)
    /\ UNCHANGED <<T, F, O, a, b, c, out2>>

\* the widened rate is narrowed again
RateNarrowAfterWiden ==
    /\ op = "rate_widen"
    /\ out.tag = "Some"
    /\ op' = "rate_widen_narrow"
    /\ out2' = Rate_u32_try_from(F, out.val)
    /\ UNCHANGED <<T, F, O, a, b, c, out>>

NextWidth ==
    \/ DurationWiden
    \/ DurationNarrow
    \/ DurationNarrowAfterWiden
    \/ RateWiden
    \/ RateNarrow
    \/ RateNarrowAfterWiden

SpecWidth == InitWidth /\ [][NextWidth]_vars

(***************************************************************************)
(* Operators: operands a and b of one backing type T and one scale F; out  *)
(* is the operator's result, out2 the result of the checked form           *)
(***************************************************************************)
InitOps ==
    /\ T \in Types
    /\ F \in Scales
    /\ O = F
    /\ a \in Values(T)
    /\ b \in Values(T)
    /\ c = 0
    /\ op = "init"
    /\ out = None
    /\ out2 = None

\* a + b
DurationAdd ==
    /\ op = "init"
    /\ op' = "duration_add"
    /\ out' = Duration_add(T, F, a, b)
    /\ out2' = Duration_checked_add(T, F, O, a, b)
    /\ UNCHANGED <<T, F, O, a, b, c>>

\* a - b
DurationSub ==
    /\ op = "init"
    /\ op' = "duration_sub"
    /\ out' = Duration_sub(T, F, a, b)
    /\ out2' = Duration_checked_sub(T, F, O, a, b)
    /\ UNCHANGED <<T, F, O, a, b, c>>

\* a += b
DurationAddAssign ==
    /\ op = "init"
    /\ op' = "duration_add_assign"
    /\ out' = Duration_add_assign(T, F, a, b)
    /\ out2' = Duration_checked_add(T, F, O, a, b)
    /\ UNCHANGED <<T, F, O, a, b, c>>

\* a -= b
DurationSubAssign ==
    /\ op = "init"
    /\ op' = "duration_sub_assign"
    /\ out' = Duration_sub_assign(T, F, a, b)
    /\ out2' = Duration_checked_sub(T, F, O, a, b)
    /\ UNCHANGED <<T, F, O, a, b, c>>

\* a + b for rates
RateAdd ==
    /\ op = "init"
    /\ op' = "rate_add"
    /\ out' = Rate_add(T, F, a, b)
    /\ out2' = Rate_checked_add(T, F, O, a, b)
    /\ UNCHANGED <<T, F, O, a, b, c>>

\* a - b for rates
RateSub ==
    /\ op = "init"
    /\ op' = "rate_sub"
    /\ out' = Rate_sub(T, F, a, b)
    /\ out2' = Rate_checked_sub(T, F, O, a, b)
    /\ UNCHANGED <<T, F, O, a, b, c>>

\* a += b for rates
RateAddAssign ==
    /\ op = "init"
    /\ op' = "rate_add_assign"
    /\ out' = Rate_add_assign(T, F, a, b)
    /\ out2' = Rate_checked_add(T, F, O, a, b)
    /\ UNCHANGED <<T, F, O, a, b, c>>

\* a -= b for a Rate<u64, F> a and a Rate<u32, F> b
RateSubAssignU32 ==
    /\ op = "init"
    /\ T = "u64" /\ b <= MAX("u32")
    /\ op' = "rate_sub_assign"
    /\ out' = Rate_u64_sub_assign_u32(F, a, b)
    /\ out2' = Rate_checked_sub(T, F, O, a, b)
    /\ UNCHANGED <<T, F, O, a, b, c>>

\* a - b for instants
InstantSub ==
    /\ op = "init"
    /\ op' = "instant_sub"
    /\ out' = Instant_sub(T, F, a, b)
    /\ out2' = Instant_checked_duration_since(T, F, a, b)
    /\ UNCHANGED <<T, F, O, a, b, c>>

NextOps ==
    \/ DurationAdd
    \/ DurationSub
    \/ DurationAddAssign
    \/ DurationSubAssign
    \/ RateAdd
    \/ RateSub
    \/ RateAddAssign
    \/ RateSubAssignU32
    \/ InstantSub

SpecOps == InitOps /\ [][NextOps]_vars

(***************************************************************************)
(* Multiplication by an integer: a value a of type T, a factor b of type   *)
(* u32                                                                     *)
(***************************************************************************)
InitMul ==
    /\ T \in Types
    /\ F \in Scales
    /\ O = F
    /\ a \in Values(T)
    /\ b \in Values("u32")
    /\ c = 0
    /\ op = "init"
    /\ out = None
    /\ out2 = None

\* a * b, in either build
DurationMul ==
    /\ op = "init"
    /\ op' = "duration_mul"
    /\ \E oc \in OverflowChecks : out' = Duration_mul(T, a, b, oc)
    /\ UNCHANGED <<T, F, O, a, b, c, out2>>

\* b * a, in either build
U32MulDuration ==
    /\ op = "init"
    /\ op' = "u32_mul_duration"
    /\ \E oc \in OverflowChecks : out' = u32_mul_Duration(T, b, a, oc)
    /\ UNCHANGED <<T, F, O, a, b, c, out2>>

\* a *= b, in either build
DurationMulAssign ==
    /\ op = "init"
    /\ op' = "duration_mul_assign"
    /\ \E oc \in OverflowChecks : out' = Duration_mul_assign(T, a, b, oc)
    /\ UNCHANGED <<T, F, O, a, b, c, out2>>

\* a * b for a rate a, in either build
RateMul ==
    /\ op = "init"
    /\ op' = "rate_mul"
    /\ \E oc \in OverflowChecks : out' = Rate_mul(T, a, b, oc)
    /\ UNCHANGED <<T, F, O, a, b, c, out2>>

\* b * a for a rate a, in either build
U32MulRate ==
    /\ op = "init"
    /\ op' = "u32_mul_rate"
    /\ \E oc \in OverflowChecks : out' = u32_mul_Rate(T, b, a, oc)
    /\ UNCHANGED <<T, F, O, a, b, c, out2>>

\* a *= b for a rate a, in either build
RateMulAssign ==
    /\ op = "init"
    /\ op' = "rate_mul_assign"
    /\ \E oc \in OverflowChecks : out' = Rate_mul_assign(T, a, b, oc)
    /\ UNCHANGED <<T, F, O, a, b, c, out2>>

NextMul ==
    \/ DurationMul
    \/ U32MulDuration
    \/ DurationMulAssign
    \/ RateMul
    \/ U32MulRate
    \/ RateMulAssign

SpecMul == InitMul /\ [][NextMul]_vars

(***************************************************************************)
(* Duration / Duration: a of scale F divided by b of scale O               *)
(***************************************************************************)
\* a / b
DurationDivDuration ==
    /\ op = "init"
    /\ op' = "duration_div"
    /\ out' = Duration_div_Duration(T, F, O, a, b)
    /\ UNCHANGED <<T, F, O, a, b, c, out2>>

NextDiv == DurationDivDuration

SpecDiv == InitArith /\ [][NextDiv]_vars

(***************************************************************************)
(* Construction: a count a and a scale F whose components may be zero      *)
(***************************************************************************)
InitConstruct ==
    /\ T \in Types
    /\ F \in {Fraction(n, d) : n \in 0 .. MaxNum, d \in 0 .. MaxDenom}
    /\ O = F
    /\ a \in Values(T)
    /\ b = 0
    /\ c = 0
    /\ op = "init"
    /\ out = None
    /\ out2 = None

\* Duration::<T, F>::from_ticks(a)
DurationFromTicks ==
    /\ op = "init"
    /\ op' = "duration_from_ticks"
    /\ out' = Duration_from_ticks(F, a)
    /\ UNCHANGED <<T, F, O, a, b, c, out2>>

\* Instant::<T, F>::from_ticks(a)
InstantFromTicks ==
    /\ op = "init"
    /\ op' = "instant_from_ticks"
    /\ out' = Instant_from_ticks(F, a)
    /\ UNCHANGED <<T, F, O, a, b, c, out2>>

\* Rate::<T, F>::from_raw(a)
RateFromRaw ==
    /\ op = "init"
    /\ op' = "rate_from_raw"
    /\ out' = Rate_from_raw(F, a)
    /\ UNCHANGED <<T, F, O, a, b, c, out2>>

\* d.checked_add(d) for the constructed duration d
DurationAddToSelf ==
    /\ op = "duration_from_ticks"
    /\ out.tag = "Some"
    /\ op' = "duration_derived"
    /\ out2' = Duration_checked_add(T, F, O, out.val, out.val)
    /\ UNCHANGED <<T, F, O, a, b, c, out>>

\* i.checked_duration_since(i) for the constructed instant i
InstantSinceSelf ==
    /\ op = "instant_from_ticks"
    /\ out.tag = "Some"
    /\ op' = "instant_derived"
    /\ out2' = Instant_checked_duration_since(T, F, out.val, out.val)
    /\ UNCHANGED <<T, F, O, a, b, c, out>>

\* r.checked_add(r) for the constructed rate r
RateAddToSelf ==
    /\ op = "rate_from_raw"
    /\ out.tag = "Some"
    /\ op' = "rate_derived"
    /\ out2' = Rate_checked_add(T, F, O, out.val, out.val)
    /\ UNCHANGED <<T, F, O, a, b, c, out>>

NextConstruct ==
    \/ DurationFromTicks
    \/ InstantFromTicks
    \/ RateFromRaw
    \/ DurationAddToSelf
    \/ InstantSinceSelf
    \/ RateAddToSelf

SpecConstruct == InitConstruct /\ [][NextConstruct]_vars

(***************************************************************************)
(* Period shorthands: a period of a units made a Rate of scale F           *)
(***************************************************************************)
\* Rate::<T, F>::nanos(a)
RateNanos ==
    /\ op = "init"
    /\ op' = "rate_nanos"
    /\ out' = Rate_nanos(T, F, a)
    /\ UNCHANGED <<T, F, O, a, b, c, out2>>

\* Rate::<T, F>::micros(a)
RateMicros ==
    /\ op = "init"
    /\ op' = "rate_micros"
    /\ out' = Rate_micros(T, F, a)
    /\ UNCHANGED <<T, F, O, a, b, c, out2>>

\* Rate::<T, F>::millis(a)
RateMillis ==
    /\ op = "init"
    /\ op' = "rate_millis"
    /\ out' = Rate_millis(T, F, a)
    /\ UNCHANGED <<T, F, O, a, b, c, out2>>

NextRateShorthand == RateNanos \/ RateMicros \/ RateMillis

SpecRateShorthand == InitWidth /\ [][NextRateShorthand]_vars

(***************************************************************************)
(* Aliases: a value of count a is built through the width-specific alias   *)
(* (out) and through the generic alias (out2) of one family, for backing   *)
(* type T and timer frequency c                                            *)
(***************************************************************************)
InitAliases ==
    /\ T \in Types
    /\ F = ONE
    /\ O = ONE
    /\ a \in Values(T)
    /\ b = 0
    /\ c \in 1 .. MAX("u32")
    /\ op = "init"
    /\ out = None
    /\ out2 = None

\* <alias>::from_ticks(a) / <alias>::from_raw(a) for both aliases of a family
AliasFromTicks ==
    /\ op = "init"
    /\ \E fam \in AliasFamilies :
           /\ op' = fam
           /\ out' = Some([type |-> WidthAlias(fam, T, c), count |-> a])
           /\ out2' = Some([type |-> GenericAlias(fam, T, c), count |-> a])
    /\ UNCHANGED <<T, F, O, a, b, c>>

NextAliases == AliasFromTicks

SpecAliases == InitAliases /\ [][NextAliases]_vars

(***************************************************************************)
(* Laws of the Instant operations: instants a and b of one scale            *)
(***************************************************************************)
\* a.const_cmp(b) next to b.const_cmp(a)
InstantConstCmpBoth ==
    /\ op = "init"
    /\ op' = "const_cmp_both"
    /\ out' = Some(Instant_const_cmp(T, a, b))
    /\ out2' = Some(Instant_const_cmp(T, b, a))
    /\ UNCHANGED <<T, F, O, a, b, c>>

\* a == b next to a.cmp(&b) and a.partial_cmp(&b)
InstantEq ==
    /\ op = "init"
    /\ op' = "eq"
    /\ out' = Some(Instant_eq(a, b))
    /\ out2' = Some(<<Instant_cmp(T, a, b), Instant_partial_cmp(T, a, b)>>)
    /\ UNCHANGED <<T, F, O, a, b, c>>

\* b.checked_add_duration(d) and a.checked_sub_duration(d) for the
\* d = Some(..) returned by a.checked_duration_since(b)
InstantSinceRoundTrip ==
    /\ op = "checked_duration_since"
    /\ out.tag = "Some"
    /\ op' = "since_round_trip"
    /\ out2' = Some(<<Instant_checked_add_duration(T, F, O, b, out.val),
                      Instant_checked_sub_duration(T, F, O, a, out.val)>>)
    /\ UNCHANGED <<T, F, O, a, b, c, out>>

NextInstantLaws ==
    \/ InstantConstCmpBoth
    \/ InstantEq
    \/ InstantCheckedDurationSince
    \/ InstantSinceRoundTrip

SpecInstantLaws == InitInstant /\ [][NextInstantLaws]_vars

(***************************************************************************)
(* Cross-base arithmetic next to conversion followed by same-base          *)
(* arithmetic                                                              *)
(***************************************************************************)
\* a.checked_add(b) next to b.const_try_into() followed by the same-base
\* checked_add, for a Duration a of scale F and b of scale O
DurationAddConverted ==
    /\ op = "init"
    /\ op' = "duration_add_converted"
    /\ out' = Duration_checked_add(T, F, O, a, b)
    /\ out2' = LET conv == Duration_const_try_into(T, O, F, b)
               IN  IF conv.tag = "Some"
                   THEN Duration_checked_add(T, F, F, a, conv.val)
                   ELSE conv
    /\ UNCHANGED <<T, F, O, a, b, c>>

\* a.checked_sub(b) next to b.const_try_into() followed by the same-base
\* checked_sub, for a Duration a of scale F and b of scale O
DurationSubConverted ==
    /\ op = "init"
    /\ op' = "duration_sub_converted"
    /\ out' = Duration_checked_sub(T, F, O, a, b)
    /\ out2' = LET conv == Duration_const_try_into(T, O, F, b)
               IN  IF conv.tag = "Some"
                   THEN Duration_checked_sub(T, F, F, a, conv.val)
                   ELSE conv
    /\ UNCHANGED <<T, F, O, a, b, c>>

\* a.checked_add(b) next to b.const_try_into() followed by the same-base
\* checked_add, for a Rate a of scale F and b of scale O
RateAddConverted ==
    /\ op = "init"
    /\ op' = "rate_add_converted"
    /\ out' = Rate_checked_add(T, F, O, a, b)
    /\ out2' = LET conv == Rate_const_try_into(T, O, F, b)
               IN  IF conv.tag = "Some"
                   THEN Rate_checked_add(T, F, F, a, conv.val)
                   ELSE conv
    /\ UNCHANGED <<T, F, O, a, b, c>>

\* a.checked_sub(b) next to b.const_try_into() followed by the same-base
\* checked_sub, for a Rate a of scale F and b of scale O
RateSubConverted ==
    /\ op = "init"
    /\ op' = "rate_sub_converted"
    /\ out' = Rate_checked_sub(T, F, O, a, b)
    /\ out2' = LET conv == Rate_const_try_into(T, O, F, b)
               IN  IF conv.tag = "Some"
                   THEN Rate_checked_sub(T, F, F, a, conv.val)
                   ELSE conv
    /\ UNCHANGED <<T, F, O, a, b, c>>

\* a.checked_add_duration(b) next to b.const_try_into() followed by the same-base
\* checked_add_duration, for an Instant a of scale F and b of scale O
InstantAddConverted ==
    /\ op = "init"
    /\ op' = "instant_add_converted"
    /\ out' = Instant_checked_add_duration(T, F, O, a, b)
    /\ out2' = LET conv == Duration_const_try_into(T, O, F, b)
               IN  IF conv.tag = "Some"
                   THEN Instant_checked_add_duration(T, F, F, a, conv.val)
                   ELSE conv
    /\ UNCHANGED <<T, F, O, a, b, c>>

\* a.checked_sub_duration(b) next to b.const_try_into() followed by the same-base
\* checked_sub_duration, for an Instant a of scale F and b of scale O
InstantSubConverted ==
    /\ op = "init"
    /\ op' = "instant_sub_converted"
    /\ out' = Instant_checked_sub_duration(T, F, O, a, b)
    /\ out2' = LET conv == Duration_const_try_into(T, O, F, b)
               IN  IF conv.tag = "Some"
                   THEN Instant_checked_sub_duration(T, F, F, a, conv.val)
                   ELSE conv
    /\ UNCHANGED <<T, F, O, a, b, c>>

NextConverted ==
    \/ DurationAddConverted
    \/ DurationSubConverted
    \/ RateAddConverted
    \/ RateSubConverted
    \/ InstantAddConverted
    \/ InstantSubConverted

SpecConverted == InitArith /\ [][NextConverted]_vars

(***************************************************************************)
(* The checked operations of Duration, Rate and Instant: a of scale F, b   *)
(* of scale O                                                              *)
(***************************************************************************)
\* a.checked_add(b) for rates
RateCheckedAdd ==
    /\ op = "init"
    /\ op' = "rate_checked_add"
    /\ out' = Rate_checked_add(T, F, O, a, b)
    /\ UNCHANGED <<T, F, O, a, b, c, out2>>

\* a.checked_sub(b) for rates
RateCheckedSub ==
    /\ op = "init"
    /\ op' = "rate_checked_sub"
    /\ out' = Rate_checked_sub(T, F, O, a, b)
    /\ UNCHANGED <<T, F, O, a, b, c, out2>>

\* a.const_partial_cmp(b) for rates
RateConstPartialCmp ==
    /\ op = "init"
    /\ op' = "rate_const_partial_cmp"
    /\ out' = Rate_const_partial_cmp(T, F, O, a, b)
    /\ UNCHANGED <<T, F, O, a, b, c, out2>>

\* a.const_eq(b) for rates
RateConstEq ==
    /\ op = "init"
    /\ op' = "rate_const_eq"
    /\ out' = Some(Rate_const_eq(T, F, O, a, b))
    /\ UNCHANGED <<T, F, O, a, b, c, out2>>

\* Rate::<$i, O>::const_try_from(a)
RateConstTryFrom ==
    /\ op = "init"
    /\ op' = "rate_const_try_from"
    /\ out' = Rate_const_try_from(T, F, O, a)
    /\ UNCHANGED <<T, F, O, a, b, c, out2>>

\* Duration::<$i, O>::const_try_from(a)
DurationConstTryFrom ==
    /\ op = "init"
    /\ op' = "duration_const_try_from"
    /\ out' = Duration_const_try_from(T, F, O, a)
    /\ UNCHANGED <<T, F, O, a, b, c, out2>>

NextChecked ==
    \/ DurationCheckedAdd
    \/ DurationCheckedSub
    \/ DurationConstPartialCmp
    \/ DurationConstEq
    \/ DurationConstTryFrom
    \/ RateCheckedAdd
    \/ RateCheckedSub
    \/ RateConstPartialCmp
    \/ RateConstEq
    \/ RateConstTryFrom
    \/ InstantCheckedAddDuration
    \/ InstantCheckedSubDuration

SpecChecked == InitArith /\ [][NextChecked]_vars

(***************************************************************************)
(* Reference values the properties are stated against                      *)
(***************************************************************************)
\* the two scales denote the same rational number
EqualScales(L, R) == L.num * R.denom = R.num * L.denom

\* the two reduced factors Ld*Rn/g and Rd*Ln/g of exact (untruncated) value
ExactLdRn(L, R) == (L.denom * R.num) \div DIVISOR(L, R)
ExactRdLn(L, R) == (R.denom * L.num) \div DIVISOR(L, R)

\* floor(ticks * (Ld*Rn/g) / (Rd*Ln/g)): ticks of scale R counted in scale L
Rescaled(L, R, ticks) == (ticks * ExactLdRn(L, R)) \div ExactRdLn(L, R)

\* ordering of two integers
ExactOrdering(x, y) ==
    IF x < y THEN "Less" ELSE IF x > y THEN "Greater" ELSE "Equal"

\* (x - y) mod 2^w
ModSub(t, x, y) == (x - y + 2 ^ BITS(t)) % (2 ^ BITS(t))

\* the modular ordering rule of two tick values
ModularOrdering(t, x, y) ==
    IF x = y THEN "Equal"
    ELSE IF ModSub(t, x, y) > MAX(t) \div 2 THEN "Less"
    ELSE IF ModSub(t, x, y) < MAX(t) \div 2 THEN "Greater"
    ELSE "Equal"

\* the greatest common divisor of two positive integers, by its definition
GreatestCommonDivisor(x, y) ==
    CHOOSE g \in 1 .. x :
        /\ x % g = 0 /\ y % g = 0
        /\ \A h \in (g + 1) .. x : ~(x % h = 0 /\ y % h = 0)

(***************************************************************************)
(* Properties                                                              *)
(***************************************************************************)
\* C1: whenever a.checked_add(b) returned Some(s), s.checked_sub(b) returns
\* Some(a') with a'.ticks = a.ticks (u32 and u64, same base or cross base).
C1_AddSubInverse == op = "add_then_sub" => out2 = Some(a)

\* a cross-base u32 sum that moved the tick count, then subtracted back
C1_Witness ==
    /\ op = "add_then_sub"
    /\ T = "u32"
    /\ ~EqualScales(F, O)
    /\ out.val > a
    /\ out2 = Some(a)

\* C2: checked_add / checked_sub return Some(r) only for r = a +/- the exact
\* rescaling of b, floor(b * (Ld*Rn/g) / (Rd*Ln/g)) with untruncated factors,
\* and return None whenever the product b * (Ld*Rn/g) or the sum/difference
\* lies outside 0..T::MAX.
C2_ExactOrNone ==
    op \in {"checked_add", "checked_sub"} =>
        LET prod == b * ExactLdRn(F, O)
            t == Rescaled(F, O, b)
            r == IF op = "checked_add" THEN a + t ELSE a - t
        IN  /\ out.tag = "Some" => out.val = r
            /\ (prod > MAX(T) \/ r < 0 \/ r > MAX(T)) => out.tag = "None"

\* C3: const_try_into returns the ticks unchanged for the same base, otherwise
\* Some(q), q = floor(a * (Rd*Ln/g) / (Ld*Rn/g)), whenever the product fits
\* 64 bits and q <= T::MAX, and None otherwise; convert aborts exactly when
\* const_try_into is None and returns its value otherwise.
C3_ConvertExact ==
    op \in {"const_try_into", "convert"} =>
        LET p == a * ExactRdLn(F, O)
            q == p \div ExactLdRn(F, O)
            expected == IF EqualScales(F, O) THEN Some(a)
                        ELSE IF p <= MAX("u64") /\ q <= MAX(T) THEN Some(q)
                        ELSE None
        IN  IF op = "const_try_into"
            THEN out = expected
            ELSE /\ out2 = expected
                 /\ out = IF expected.tag = "None" THEN Panic ELSE expected

\* a u32 conversion that succeeds although the product exceeds u32::MAX
C3_Witness ==
    /\ op = "const_try_into"
    /\ T = "u32"
    /\ ~EqualScales(F, O)
    /\ a * ExactRdLn(F, O) > MAX("u32")
    /\ out.tag = "Some"

\* C4: const_partial_cmp compares same-base operands by ticks and is then
\* never None; for different bases it is None only if a * (Rd*Ln/g) or
\* b * (Ld*Rn/g) exceeds T::MAX, and Some(o) only for the exact ordering o of
\* the values a*Ln/Ld and b*Rn/Rd.
C4_CompareExact ==
    op = "const_partial_cmp" =>
        IF EqualScales(F, O)
        THEN out = Some(ExactOrdering(a, b))
        ELSE /\ out.tag = "None" =>
                    \/ a * ExactRdLn(F, O) > MAX(T)
                    \/ b * ExactLdRn(F, O) > MAX(T)
             /\ out.tag = "Some" =>
                    out.val = ExactOrdering(a * F.num * O.denom,
                                            b * O.num * F.denom)

\* C5: a == b is true exactly when a*Ln*Rd = b*Rn*Ld.
C5_EqualityExact ==
    op = "const_eq" => (out.val <=> (a * F.num * O.denom = b * O.num * F.denom))

\* C6: Instant::const_cmp, PartialOrd::partial_cmp and Ord::cmp all return
\* the modular ordering: Equal if a = b, else with d = (a - b) mod 2^w Less
\* if d > T::MAX/2, Greater if d < T::MAX/2, Equal if d = T::MAX/2.
C6_ModularOrdering ==
    op \in {"const_cmp", "partial_cmp", "cmp"} =>
        out = Some(ModularOrdering(T, a, b))

\* two different instants exactly T::MAX/2 apart compare Equal
C6_Witness ==
    /\ op = "partial_cmp"
    /\ a # b
    /\ ModSub(T, a, b) = MAX(T) \div 2
    /\ out = Some("Equal")

\* C7: for 0 < k < T::MAX/2 the instant (x + k) mod 2^w compares Greater than
\* the instant x, and x compares Less than it, also when the addition wraps.
C7_WraparoundAware ==
    op = "const_cmp" =>
        \A k \in 1 .. (MAX(T) \div 2 - 1) :
            /\ a = (b + k) % (2 ^ BITS(T)) => out.val = "Greater"
            /\ b = (a + k) % (2 ^ BITS(T)) => out.val = "Less"

\* Instant(1) > Instant(u32::MAX)
C7_Witness ==
    /\ op = "const_cmp"
    /\ T = "u32"
    /\ a = 1
    /\ b = MAX(T)
    /\ out.val = "Greater"

\* C8: the ordering is not transitive: with a < b and b < c, a < c fails
\* exactly when the way from a over b to c is longer than half the counter
\* range (and such a, b, c exist: the witness).
C8_NotTransitive ==
    (op = "cmp_chain" /\ out.val[1] = "Less" /\ out.val[2] = "Less") =>
        (out.val[3] # "Less" <=>
            ModSub(T, b, a) + ModSub(T, c, b) > 2 ^ (BITS(T) - 1))

\* a < b and b < c but not a < c
C8_Witness ==
    /\ op = "cmp_chain"
    /\ out.val[1] = "Less"
    /\ out.val[2] = "Less"
    /\ out.val[3] # "Less"

\* C9: a.checked_duration_since(b) is Some(d), d = (a - b) mod 2^w, exactly
\* when a compares Greater or Equal to b, and None exactly when it compares
\* Less.
C9_CheckedDurationSince ==
    op = "checked_duration_since" =>
        out = IF ModularOrdering(T, a, b) \in {"Greater", "Equal"}
              THEN Some(ModSub(T, a, b))
              ELSE None

\* Instant(2).checked_duration_since(Instant(T::MAX)) == Some(Duration(3))
C9_Witness ==
    /\ op = "checked_duration_since"
    /\ T = "u64"
    /\ a = 2
    /\ b = MAX(T)
    /\ out = Some(3)

\* C10: checked_add_duration / checked_sub_duration return, for the same
\* base, always Some((a +/- b) mod 2^w); for a different base None exactly
\* when b * (Ld*Rn/g) exceeds T::MAX and otherwise Some((a +/- t) mod 2^w)
\* for t = floor(b * (Ld*Rn/g) / (Rd*Ln/g)).
C10_WrappingExact ==
    op \in {"checked_add_duration", "checked_sub_duration"} =>
        LET w == 2 ^ BITS(T)
            t == IF EqualScales(F, O) THEN b ELSE Rescaled(F, O, b)
            r == IF op = "checked_add_duration"
                 THEN (a + t) % w
                 ELSE (a + w - (t % w)) % w
        IN  IF ~EqualScales(F, O) /\ b * ExactLdRn(F, O) > MAX(T)
            THEN out = None
            ELSE out = Some(r)

\* C11: for all valid scales L = F and R = O, with g the greatest common
\* divisor of Ld*Rn and Rd*Ln, RD_TIMES_LN is (Rd*Ln)/g and LD_TIMES_RN is
\* (Ld*Rn)/g, the two are coprime, their ratio is the exact rational
\* (Ln/Ld)/(Rn/Rd), and no smaller positive pair has that ratio.
C11_ReducerMinimal ==
    op = "helpers" =>
        /\ out.tag = "Some"
        /\ LET g == GreatestCommonDivisor(F.denom * O.num, O.denom * F.num)
               p == out.val.RD_TIMES_LN
               q == out.val.LD_TIMES_RN
           IN  /\ out.val.DIVISOR = g
               /\ p * g = O.denom * F.num
               /\ q * g = F.denom * O.num
               /\ p >= 1 /\ q >= 1
               /\ \A k \in 2 .. p : ~(p % k = 0 /\ q % k = 0)
               /\ p * (F.denom * O.num) = q * (F.num * O.denom)
               /\ \A p2 \in 1 .. p, q2 \in 1 .. q :
                      p2 * (F.denom * O.num) = q2 * (F.num * O.denom)
                          => p2 = p /\ q2 = q

\* C11 witness: a pair of scales whose cross products share a divisor above 1
\* and are reduced to factors other than 1.
C11_Witness ==
    /\ op = "helpers"
    /\ out.tag = "Some"
    /\ out.val.DIVISOR > 1
    /\ out.val.RD_TIMES_LN > 1
    /\ out.val.LD_TIMES_RN > 1

\* C12: SAME_BASE is true exactly when Ln*Rd = Ld*Rn, that is exactly when
\* both reduced factors are 1, and SAME_BASE of (L, R) equals SAME_BASE of
\* (R, L).
C12_SameBase ==
    op = "helpers" =>
        /\ out.tag = "Some"
        /\ out2.tag = "Some"
        /\ out.val.SAME_BASE = (F.num * O.denom = F.denom * O.num)
        /\ out.val.SAME_BASE =
               (out.val.RD_TIMES_LN = 1 /\ out.val.LD_TIMES_RN = 1)
        /\ out.val.SAME_BASE = out2.val.SAME_BASE

\* C12 witness: two syntactically different scales of the same value are
\* found to have the same base.
C12_Witness ==
    /\ op = "helpers"
    /\ F = Fraction(1, 2)
    /\ O = Fraction(2, 4)
    /\ out.tag = "Some"
    /\ out.val.SAME_BASE

\* C13: for all scale components in 1 .. u32::MAX the evaluation of the
\* Helpers constants does not abort: no 64-bit product overflows, both
\* divisors and LN_TIMES_RN are at least 1, and both reduced factors are at
\* least 1.
C13_HelpersTotal ==
    op = "helpers" =>
        /\ out.tag = "Some"
        /\ widening_mul(F.denom, O.num).tag = "Some"
        /\ widening_mul(O.denom, F.num).tag = "Some"
        /\ widening_mul(F.num, O.num).tag = "Some"
        /\ widening_mul(O.denom, F.denom).tag = "Some"
        /\ out.val.DIVISOR >= 1
        /\ out.val.DIVISOR_2 >= 1
        /\ out.val.LN_TIMES_RN >= 1
        /\ out.val.RD_TIMES_LN >= 1
        /\ out.val.LD_TIMES_RN >= 1
        /\ out.val.RD_TIMES_LD <= MAX("u64")

\* C13 witness: the largest products, every component being u32::MAX.
C13_Witness ==
    /\ op = "helpers"
    /\ F = Fraction(MAX("u32"), MAX("u32"))
    /\ O = Fraction(MAX("u32"), MAX("u32"))
    /\ out.tag = "Some"
    /\ widening_mul(F.num, O.num) = Some(MAX("u32") * MAX("u32"))
    /\ widening_mul(F.num, O.num).val > MAX("u32")

\* C14: for a rate with raw > 0, try_from_rate / try_into_duration return
\* Some with ticks = floor((Id*Fd) / (In*Fn*raw)), and for a duration with
\* ticks > 0, try_from_duration / try_into_rate return Some with
\* raw = floor((Id*Fd) / (In*Fn*ticks)) (I = F the input scale, O the target).
C14_ReciprocalExact ==
    (/\ op \in {"try_from_rate", "try_into_duration",
                 "try_from_duration", "try_into_rate"}
     /\ a > 0)
        => out = Some((F.denom * O.denom) \div (F.num * O.num * a))

\* C15: the try_ forms return None exactly for a zero input and never abort;
\* the into_ / from_ forms abort exactly for a zero input.
C15_ZeroIsNone ==
    /\ op \in {"try_from_rate", "try_into_duration",
                "try_from_duration", "try_into_rate"}
           => /\ out.tag # "Panic"
              /\ (out.tag = "None") = (a = 0)
    /\ op \in {"from_rate", "into_duration", "from_duration", "into_rate"}
           => /\ out.tag # "None"
              /\ (out.tag = "Panic") = (a = 0)

\* C15 witness: a zero duration asked for its rate gives None, no abort.
C15_Witness ==
    /\ op = "try_into_rate"
    /\ a = 0
    /\ out = None

\* C16: when one tick of scale F is a whole number k of ticks of scale O and
\* a * k does not exceed T::MAX, a.convert::<O>() is a * k ticks and
\* converting that back to scale F gives a ticks again.
C16_ConvertRoundTrip ==
    LET even == (F.num * O.denom) % (F.denom * O.num) = 0
        k == (F.num * O.denom) \div (F.denom * O.num)
    IN  /\ (op = "convert" /\ even /\ a * k <= MAX(T)) => out = Some(a * k)
        /\ (op = "convert_back" /\ even) => out2 = Some(a)

\* C16 witness: a round trip through a finer scale of another base, the
\* intermediate tick count differing from the original.
C16_Witness ==
    /\ op = "convert_back"
    /\ (F.num * O.denom) % (F.denom * O.num) = 0
    /\ ~SAME_BASE(F, O)
    /\ a > 0
    /\ out.val > a
    /\ out2 = Some(a)

\* C17: the named-unit constructor of unit scale U = F returns
\* floor(a * U / O) ticks for every a for which that tick count fits in T,
\* no intermediate being wrapped or truncated.
C17_UnitExact ==
    (/\ op = "unit"
     /\ (a * F.num * O.denom) \div (F.denom * O.num) <= MAX(T))
        => out = Some((a * F.num * O.denom) \div (F.denom * O.num))

\* C18: the _at_least constructor returns ceil(a * RD_TIMES_LN / LD_TIMES_RN)
\* ticks (whenever that fits in T): the tick count of the truncating
\* constructor when the division is exact and one more otherwise.
C18_CeilExact ==
    LET n == a * F.num * O.denom
        d == F.denom * O.num
        ceil == IF n % d = 0 THEN n \div d ELSE (n \div d) + 1
    IN  (op = "unit_at_least" /\ ceil <= MAX(T))
            => /\ out = Some(ceil)
               /\ out2.tag = "Some"
               /\ out.val = out2.val + (IF n % d = 0 THEN 0 ELSE 1)

\* C19: widening u32 -> u64 keeps the tick / raw count of every Duration and
\* Rate; narrowing u64 -> u32 is Ok with the same count exactly when the
\* count is at most u32::MAX and Err(()) otherwise; narrowing after widening
\* returns the original value.
C19_WidthBridge ==
    /\ op \in {"duration_widen", "rate_widen"} => out = Some(a)
    /\ op \in {"duration_narrow", "rate_narrow"} =>
           /\ a <= MAX("u32") => out = Ok(a)
           /\ a > MAX("u32") => out = Err
    /\ op \in {"duration_widen_narrow", "rate_widen_narrow"} => out2 = Ok(a)

\* C19 witness: a count above u32::MAX is refused by the narrowing.
C19_Witness ==
    /\ op = "duration_narrow"
    /\ a = MAX("u32") + 1
    /\ out = Err

\* C20: for operands of one scale, +, - and their assigning forms on
\* Duration and Rate, and Instant - Instant, return exactly the value of the
\* checked form (out2) when that is Some and abort exactly when it is None:
\* a sum above T::MAX or a difference below 0 aborts, and Instant - Instant
\* aborts exactly when other is later than self in the modular order.
C20_FailFast ==
    /\ op \in {"duration_add", "duration_add_assign", "rate_add",
                "rate_add_assign"} =>
           /\ out2 = (IF a + b <= MAX(T) THEN Some(a + b) ELSE None)
           /\ out = (IF out2.tag = "Some" THEN out2 ELSE Panic)
    /\ op \in {"duration_sub", "duration_sub_assign", "rate_sub",
                "rate_sub_assign"} =>
           /\ out2 = (IF a >= b THEN Some(a - b) ELSE None)
           /\ out = (IF out2.tag = "Some" THEN out2 ELSE Panic)
    /\ op = "instant_sub" =>
           /\ out2 = (IF ModularOrdering(T, a, b) = "Less"
                       THEN None ELSE Some(ModSub(T, a, b)))
           /\ out = (IF out2.tag = "Some" THEN out2 ELSE Panic)

\* C20 witness: a sum that overflows is None for checked_add and an abort
\* for +.
C20_Witness ==
    /\ op = "duration_add"
    /\ a + b > MAX(T)
    /\ out2 = None
    /\ out = Panic

\* C21: multiplying a Duration or a Rate by an integer never yields a
\* wrapped count: the result is a * b exactly when that fits in T, and the
\* operation aborts when it does not.
C21_MulNeverWraps ==
    op \in {"duration_mul", "u32_mul_duration", "duration_mul_assign",
            "rate_mul", "u32_mul_rate", "rate_mul_assign"} =>
        out = (IF a * b <= MAX(T) THEN Some(a * b) ELSE Panic)

\* C22 as stated: the right-hand operand b is converted into the base of the
\* left-hand operand a, and the result is a.ticks / converted(b).ticks
\* (whenever the converted count is not zero).
C22_DivConvertsRight ==
    LET conv == (b * O.num * F.denom) \div (O.denom * F.num)
    IN  (op = "duration_div" /\ conv > 0 /\ conv <= MAX(T))
            => out = Some(a \div conv)

\* C22 amended: the left-hand operand a is converted into the base of the
\* right-hand operand b (floor(a * (Rd*Ln/g) / (Ld*Rn/g)), aborting when the
\* 64-bit product or the converted count does not fit), and the result is
\* the truncating quotient converted(a).ticks / b.ticks, aborting for b = 0.
C22_DivConvertsLeft ==
    op = "duration_div" =>
        LET p == a * ExactRdLn(F, O)
            conv == p \div ExactLdRn(F, O)
            fits == IF EqualScales(F, O) THEN TRUE
                    ELSE p <= MAX("u64") /\ conv <= MAX(T)
        IN  out = (IF fits /\ b > 0 THEN Some(conv \div b) ELSE Panic)

\* C22 witness: a division across bases whose quotient differs from the one
\* obtained by converting the right-hand operand.
C22_Witness ==
    /\ op = "duration_div"
    /\ ~EqualScales(F, O)
    /\ out.tag = "Some"
    /\ (b * O.num * F.denom) \div (O.denom * F.num) > 0
    /\ out.val # a \div ((b * O.num * F.denom) \div (O.denom * F.num))

\* C23: from_ticks / from_raw return the value holding the given count
\* unchanged exactly when the scale has numerator > 0 and denominator > 0 and
\* abort otherwise; every value derived from a constructed one carries a
\* valid scale.
C23_ConstructionInvariant ==
    /\ op \in {"duration_from_ticks", "instant_from_ticks", "rate_from_raw"} =>
           out = (IF F.num > 0 /\ F.denom > 0 THEN Some(a) ELSE Panic)
    /\ op \in {"duration_derived", "instant_derived", "rate_derived"} =>
           (out.tag = "Some" /\ F.num > 0 /\ F.denom > 0)

\* C23 witness: construction with a zero denominator aborts.
C23_Witness ==
    /\ op = "duration_from_ticks"
    /\ F.num > 0
    /\ F.denom = 0
    /\ out = Panic

\* C24: for val > 0, Rate::nanos / micros / millis(val) equal
\* Rate::from_duration applied to a Duration of val ticks at the scale of one
\* nanosecond / microsecond / millisecond.
C24_RatePeriodShorthands ==
    /\ (op = "rate_nanos" /\ a > 0) =>
           out = Rate_from_duration(T, Fraction_NANO, F, a)
    /\ (op = "rate_micros" /\ a > 0) =>
           out = Rate_from_duration(T, Fraction_MICRO, F, a)
    /\ (op = "rate_millis" /\ a > 0) =>
           out = Rate_from_duration(T, Fraction_MILLI, F, a)

\* C25: every width-specific alias denotes the same type as its generic
\* alias at that width, and the same scale as the alias of the other width;
\* the Hertz, Kilohertz and Megahertz aliases denote TimerRate at 1, 1_000
\* and 1_000_000.
C25_AliasesAgree ==
    op \in AliasFamilies =>
        /\ out = out2
        /\ WidthAlias(op, "u32", c).F = WidthAlias(op, "u64", c).F
        /\ op = "Hertz" => out.val.type = WidthAlias("TimerRate", T, 1)
        /\ op = "Kilohertz" =>
               out.val.type = WidthAlias("TimerRate", T, KILO.num)
        /\ op = "Megahertz" =>
               out.val.type = WidthAlias("TimerRate", T, MEGA.num)

\* the reverse of an ordering
Reverse(o) ==
    IF o = "Less" THEN "Greater" ELSE IF o = "Greater" THEN "Less" ELSE "Equal"

\* C26: for all tick values a and b, const_cmp(a, b) is the reverse of
\* const_cmp(b, a).
C26_Antisymmetric ==
    op = "const_cmp_both" => out.val = Reverse(out2.val)

\* C27: a == b holds exactly when a.cmp(&b) is Equal, and exactly when
\* a.partial_cmp(&b) is Some(Equal).
C27_EqAgreesWithOrd ==
    op = "eq" =>
        /\ out.val = (out2.val[1] = "Equal")
        /\ out.val = (out2.val[2] = Some("Equal"))

\* C28: when a.checked_duration_since(b) is Some(d), d is at most T::MAX / 2,
\* b.checked_add_duration(d) is Some instant of a's ticks and
\* a.checked_sub_duration(d) is Some instant of b's ticks.
C28_InstantRoundTrip ==
    /\ (op = "checked_duration_since" /\ out.tag = "Some") =>
           out.val <= MAX(T) \div 2
    /\ op = "since_round_trip" =>
           /\ out.val <= MAX(T) \div 2
           /\ out2.val[1] = Some(a)
           /\ out2.val[2] = Some(b)

\* C28 witness: a round trip across the wraparound of the counter.
C28_Witness ==
    /\ op = "since_round_trip"
    /\ a < b
    /\ out.val > 0
    /\ out2.val = <<Some(a), Some(b)>>

\* C29: a cross-base checked_add / checked_sub of Duration and of Rate, and
\* a cross-base checked_add_duration / checked_sub_duration of Instant, give
\* what converting the right operand into the left operand's base with
\* const_try_into and then applying the same-base operation gives (None when
\* either step is None), for u32 and for u64
ConvertedOps ==
    {"duration_add_converted", "duration_sub_converted",
     "rate_add_converted", "rate_sub_converted",
     "instant_add_converted", "instant_sub_converted"}

C29_CrossBaseAgrees ==
    (op \in ConvertedOps /\ ~SAME_BASE(F, O)) => out = out2

\* C29 (amended): the agreement holds for the u64 backing
C29_CrossBaseAgreesU64 ==
    (op \in ConvertedOps /\ ~SAME_BASE(F, O) /\ T = "u64") => out = out2

C29_Witness ==
    /\ op = "rate_sub_converted"
    /\ T = "u64"
    /\ ~SAME_BASE(F, O)
    /\ out.tag = "Some"
    /\ out.val # a
    /\ out = out2

\* C30: for every pair of valid scales and every count, for u32 and u64,
\* checked_add, checked_sub, const_partial_cmp, const_eq and const_try_from
\* of Duration and of Rate, and checked_add_duration / checked_sub_duration
\* of Instant, return a value and never abort: the divisor used after the
\* cast of a reduced factor to $i is never zero
CheckedOps ==
    {"checked_add", "checked_sub", "const_partial_cmp", "const_eq",
     "duration_const_try_from", "rate_checked_add", "rate_checked_sub",
     "rate_const_partial_cmp", "rate_const_eq", "rate_const_try_from",
     "checked_add_duration", "checked_sub_duration"}

C30_CheckedNeverAbort ==
    op \in CheckedOps => out.tag # "Panic"

====
